---- MODULE Spec2Model ----
(***************************************************************************)
(* Memory-matching card game: the Game / Deck / Card model of src/main.ts. *)
(*                                                                         *)
(* A Card object is the record [id, value, state]; the Deck's `cards`      *)
(* array is the sequence `cards` (display order) and its `index` Map is    *)
(* the lookup by id over that sequence.  The timers scheduled by           *)
(* evaluateTurn are the FIFO queue `timers`; each entry holds the two Card *)
(* objects the closure captured.  Deck.reset replaces every Card object,   *)
(* so a closure scheduled before a reset holds objects that are no longer  *)
(* in the deck: its entry is marked live = FALSE and firing it writes only *)
(* to those detached objects.  `last` records the latest call: its name,   *)
(* its argument, the message of the GameError it threw (or "none") and the *)
(* source line at which it returned or threw.                              *)
(***************************************************************************)
EXTENDS Integers, Sequences, FiniteSets, TLC

VARIABLES pairs, maxAttempts, cards, status, attemptsLeft, selected, timers, last

vars == <<pairs, maxAttempts, cards, status, attemptsLeft, selected, timers, last>>

(* ---------------------------- bounds ----------------------------------- *)
MaxPairs == 2        \* largest cfg.pairs explored
MaxAttempts == 2     \* largest cfg.maxAttempts explored
MaxLen == 2          \* longest value list passed by a caller
MaxTimers == 1       \* most flip-back timers pending at once
RandomSteps == 2     \* Math.random() returns one of 0/RandomSteps .. (RandomSteps-1)/RandomSteps

(* ---------------------------- types.ts --------------------------------- *)
Idle == "IDLE"
Playing == "PLAYING"
Won == "WON"
Lost == "LOST"
GameStatus == {Idle, Playing, Won, Lost}

FaceDown == "FACE_DOWN"
FaceUp == "FACE_UP"
Matched == "MATCHED"
CardState == {FaceDown, FaceUp, Matched}

\* messages of the GameError instances the Game throws
ErrNotPlaying == "Game not in PLAYING state"
ErrNotFound == "Card not found"
ErrMatched == "Card already matched"
NoError == "none"

(* ---------------------------- values ----------------------------------- *)
DefaultValues == <<"A", "B", "C", "D", "E", "F">>

\* the letters callers pass in custom value lists
Letters == {"A", "B"}

\* position of a one-letter string in the collation order used by localeCompare
Rank(v) == CHOOSE i \in 1..Len(DefaultValues) : DefaultValues[i] = v

ValueLists == UNION {[1..n -> Letters] : n \in 0..MaxLen}

Max(a, b) == IF a > b THEN a ELSE b

\* ids a caller may pass to flip: every id a deck can hold, and one beyond
Ids == 0..(2 * Max(MaxPairs, MaxLen))

(* ---------------------------- shuffle ---------------------------------- *)
\* [a[i], a[j]] = [a[j], a[i]] on a 1-based sequence
Swap(a, i, j) == [a EXCEPT ![i] = a[j], ![j] = a[i]]

\* Math.floor(Math.random() * (i + 1)), Math.random() being in [0, 1)
RandomIndex(i) == {(k * (i + 1)) \div RandomSteps : k \in 0..(RandomSteps - 1)}

RECURSIVE ShuffleFrom(_, _)
\* the loop of shuffle from 0-based index i down to 1
ShuffleFrom(a, i) ==
    IF i <= 0 THEN {a}
    ELSE UNION {ShuffleFrom(Swap(a, i + 1, j + 1), i - 1) : j \in RandomIndex(i)}

\* every array the Fisher-Yates shuffle can return
shuffle(arr) == ShuffleFrom(arr, Len(arr) - 1)

(* ---------------------------- Card / Deck ------------------------------ *)
Card(id, value) == [id |-> id, value |-> value, state |-> FaceDown]

\* values.flatMap((v, idx) => [new Card(idx*2, v), new Card(idx*2+1, v)])
Duplicated(values) ==
    [k \in 1..(2 * Len(values)) |->
        Card(k - 1, values[((k - 1) \div 2) + 1])]

\* decks that new Deck(values) / Deck.reset(values) can produce
DeckOf(values) == shuffle(Duplicated(values))

\* Deck.index: the position of the card with this id, 0 when absent
IndexOf(cs, id) ==
    IF \E k \in 1..Len(cs) : cs[k].id = id
    THEN CHOOSE k \in 1..Len(cs) : cs[k].id = id
    ELSE 0

HasCard(cs, id) == IndexOf(cs, id) # 0

\* Deck.get
Get(cs, id) == cs[IndexOf(cs, id)]

SetState(cs, idSet, st) ==
    [k \in 1..Len(cs) |->
        IF cs[k].id \in idSet THEN [cs[k] EXCEPT !.state = st] ELSE cs[k]]

(* ---------------------------- Game constructor ------------------------- *)
\* values.filter((_, i) => i < pairs)
FirstN(values, n) == SubSeq(values, 1, IF Len(values) < n THEN Len(values) ELSE n)

RECURSIVE InsertSorted(_, _)
InsertSorted(v, s) ==
    IF s = <<>> THEN <<v>>
    ELSE IF Rank(v) < Rank(Head(s)) THEN <<v>> \o s
    ELSE <<Head(s)>> \o InsertSorted(v, Tail(s))

RECURSIVE SortValues(_)
\* .sort((a, b) => a.localeCompare(b)), stable
SortValues(s) ==
    IF s = <<>> THEN <<>>
    ELSE InsertSorted(s[Len(s)], SortValues(SubSeq(s, 1, Len(s) - 1)))

\* the `chosen` list of the constructor (String(v) of a string is v)
Chosen(values, p) == SortValues(FirstN(values, p))

\* value lists a config can carry: a custom list, or none (the default applies)
ConfigValues == ValueLists \cup {DefaultValues}

Call(op, arg, err, at) == [op |-> op, arg |-> arg, err |-> err, at |-> at]

Init ==
    /\ pairs \in 1..MaxPairs          \* pairs < 1 throws, no Game exists
    /\ maxAttempts \in 0..MaxAttempts
    /\ \E values \in ConfigValues : cards \in DeckOf(Chosen(values, pairs))
    /\ status = Idle
    /\ attemptsLeft = maxAttempts
    /\ selected = <<>>
    /\ timers = <<>>
    /\ last = Call("construct", -1, NoError, "main.ts:107")

(* ---------------------------- Game.start ------------------------------- *)
\* start that also turns every card face down
StartClearsBoard ==
    /\ status' = Playing
    /\ attemptsLeft' = maxAttempts
    /\ selected' = <<>>
    /\ cards' = [k \in 1..Len(cards) |-> [cards[k] EXCEPT !.state = FaceDown]]
    /\ last' = Call("start", -1, NoError, "main.ts:113")
    /\ UNCHANGED <<pairs, maxAttempts, timers>>

\* start that leaves the attempt budget as it is
StartKeepsAttempts ==
    /\ status' = Playing
    /\ attemptsLeft' = attemptsLeft
    /\ selected' = <<>>
    /\ last' = Call("start", -1, NoError, "main.ts:113")
    /\ UNCHANGED <<pairs, maxAttempts, cards, timers>>

Start ==
    /\ status' = Playing
    /\ attemptsLeft' = maxAttempts
    /\ selected' = <<>>
    /\ last' = Call("start", -1, NoError, "main.ts:113")
    /\ UNCHANGED <<pairs, maxAttempts, cards, timers>>

(* ---------------------------- Game.flip -------------------------------- *)
\* the duplicate-click guard dropped: no card counts as selected
InSelectedNever(id) == FALSE

\* this.selected.includes(card)
InSelected(id) == \E k \in 1..Len(selected) : selected[k] = id

\* only face-up cards counted as remaining
RemainingFaceUp(cs) == {k \in 1..Len(cs) : cs[k].state = FaceUp}

\* this.getCards().filter((c) => c.state !== CardState.Matched)
Remaining(cs) == {k \in 1..Len(cs) : cs[k].state # Matched}

\* aVal === bVal && aId !== bId
IsMatch(cs, sel) ==
    /\ Get(cs, sel[1]).value = Get(cs, sel[2]).value
    /\ sel[1] # sel[2]

\* the budget test written < 0
OutOfAttemptsStrict(n) == n < 0

\* this.attemptsLeft <= 0
OutOfAttempts(n) == n <= 0

\* evaluateTurn clearing the selection only after a match
EvaluateTurnKeepsSelection(cs, sel) ==
    IF IsMatch(cs, sel)
    THEN LET marked == SetState(cs, {sel[1], sel[2]}, Matched) IN
         /\ cards' = marked
         /\ status' = IF Remaining(marked) = {} THEN Won ELSE status
         /\ attemptsLeft' = attemptsLeft
         /\ timers' = timers
         /\ selected' = <<>>
    ELSE /\ Len(timers) < MaxTimers
         /\ cards' = cs
         /\ attemptsLeft' = attemptsLeft - 1
         /\ timers' = Append(timers, [first |-> sel[1], second |-> sel[2], live |-> TRUE])
         /\ status' = IF OutOfAttempts(attemptsLeft - 1) THEN Lost ELSE status
         /\ selected' = sel

\* evaluateTurn, run on the deck cs with the two selected ids sel
EvaluateTurn(cs, sel) ==
    IF IsMatch(cs, sel)
    THEN LET marked == SetState(cs, {sel[1], sel[2]}, Matched) IN
         /\ cards' = marked
         /\ status' = IF Remaining(marked) = {} THEN Won ELSE status
         /\ attemptsLeft' = attemptsLeft
         /\ timers' = timers
         /\ selected' = <<>>
    ELSE /\ Len(timers) < MaxTimers
         /\ cards' = cs
         /\ attemptsLeft' = attemptsLeft - 1
         /\ timers' = Append(timers, [first |-> sel[1], second |-> sel[2], live |-> TRUE])
         /\ status' = IF OutOfAttempts(attemptsLeft - 1) THEN Lost ELSE status
         /\ selected' = <<>>

\* flip without the "already matched" check
FlipErrorNoMatchedCheck(id) ==
    IF status # Playing THEN ErrNotPlaying
    ELSE IF ~HasCard(cards, id) THEN ErrNotFound
    ELSE NoError

\* flip without the status check
FlipErrorNoStatusCheck(id) ==
    IF ~HasCard(cards, id) THEN ErrNotFound
    ELSE IF Get(cards, id).state = Matched THEN ErrMatched
    ELSE NoError

\* the checks flip makes before it touches anything: the message it throws
FlipError(id) ==
    IF status # Playing THEN ErrNotPlaying
    ELSE IF ~HasCard(cards, id) THEN ErrNotFound
    ELSE IF Get(cards, id).state = Matched THEN ErrMatched
    ELSE NoError

\* where a throwing flip leaves the code
ThrowLine(err) ==
    IF err = ErrNotPlaying THEN "main.ts:121"
    ELSE IF err = ErrNotFound THEN "main.ts:68"
    ELSE "main.ts:125"

Flip(id) ==
    IF FlipError(id) # NoError
    THEN /\ last' = Call("flip", id, FlipError(id), ThrowLine(FlipError(id)))
         /\ UNCHANGED <<pairs, maxAttempts, cards, status, attemptsLeft, selected, timers>>
    ELSE IF InSelected(id)
    THEN /\ last' = Call("flip", id, NoError, "main.ts:126")
         /\ UNCHANGED <<pairs, maxAttempts, cards, status, attemptsLeft, selected, timers>>
    ELSE LET up == SetState(cards, {id}, FaceUp)
             sel == Append(selected, id) IN
         /\ last' = Call("flip", id, NoError, "main.ts:135")
         /\ UNCHANGED <<pairs, maxAttempts>>
         /\ IF Len(sel) = 2
            THEN EvaluateTurn(up, sel)
            ELSE /\ cards' = up
                 /\ selected' = sel
                 /\ UNCHANGED <<status, attemptsLeft, timers>>

(* ---------------------------- flip-back timer -------------------------- *)
\* the callback turning only its first card face down
FlipBackFirstOnly ==
    /\ timers # <<>>
    /\ LET t == Head(timers) IN
       cards' = IF t.live THEN SetState(cards, {t.first}, FaceDown) ELSE cards
    /\ timers' = Tail(timers)
    /\ last' = Call("timeout", -1, NoError, "main.ts:155")
    /\ UNCHANGED <<pairs, maxAttempts, status, attemptsLeft, selected>>

\* the setTimeout callback of evaluateTurn; equal delays fire in FIFO order
FlipBack ==
    /\ timers # <<>>
    /\ LET t == Head(timers) IN
       cards' = IF t.live THEN SetState(cards, {t.first, t.second}, FaceDown) ELSE cards
    /\ timers' = Tail(timers)
    /\ last' = Call("timeout", -1, NoError, "main.ts:155")
    /\ UNCHANGED <<pairs, maxAttempts, status, attemptsLeft, selected>>

(* ---------------------------- Game.reset ------------------------------- *)
\* values && values.length >= this.pairs ? values : first `pairs` deck values
FinalValues(given, values) ==
    IF given /\ Len(values) >= pairs
    THEN values
    ELSE LET head == FirstN(cards, pairs) IN [k \in 1..Len(head) |-> head[k].value]

\* Deck.reset re-using the Card objects: pending closures keep their cards
DetachNothing(ts) == ts

\* the Card objects a pending closure holds are no longer cards of the deck
Detach(ts) == [k \in 1..Len(ts) |-> [first |-> -1, second |-> -1, live |-> FALSE]]

\* reset(values); last.arg is values.length, -1 when no list is passed
Reset(given, values) ==
    /\ cards' \in DeckOf(FinalValues(given, values))
    /\ timers' = Detach(timers)
    /\ status' = Playing
    /\ attemptsLeft' = maxAttempts
    /\ selected' = <<>>
    /\ last' = Call("reset", IF given THEN Len(values) ELSE -1, NoError, "main.ts:170")
    /\ UNCHANGED <<pairs, maxAttempts>>

ResetNoArg == Reset(FALSE, <<>>)

ResetWith == \E values \in ValueLists : Reset(TRUE, values)

FlipAny == \E id \in Ids : Flip(id)

Next ==
    \/ Start
    \/ FlipAny
    \/ FlipBack
    \/ ResetNoArg
    \/ ResetWith

Spec == Init /\ [][Next]_vars

(* ---------------------------- a game in play --------------------------- *)
\* a Game built from a config with pairs distinct values and a positive
\* attempt budget, then started: Playing, every card FaceDown
InitFresh ==
    /\ pairs \in 1..MaxPairs
    /\ maxAttempts \in 1..MaxAttempts
    /\ cards \in DeckOf(Chosen(DefaultValues, pairs))
    /\ status = Playing
    /\ attemptsLeft = maxAttempts
    /\ selected = <<>>
    /\ timers = <<>>
    /\ last = Call("start", -1, NoError, "main.ts:113")

\* the player only flips and the timers fire: no start, no reset
NextPlay ==
    \/ FlipAny
    \/ FlipBack

SpecPlay == InitFresh /\ [][NextPlay]_vars

(* ---------------------------- board click handler ---------------------- *)
\* the click guard without the FaceUp test
ClickDroppedMatchedOnly(id) ==
    \/ ~HasCard(cards, id)
    \/ Get(cards, id).state = Matched

\* !before || before.state === Matched || before.state === FaceUp
ClickDropped(id) ==
    \/ ~HasCard(cards, id)
    \/ Get(cards, id).state = Matched
    \/ Get(cards, id).state = FaceUp

\* board.onclick on the button of card id; a GameError of flip is caught
Click(id) ==
    IF ClickDropped(id)
    THEN /\ last' = Call("click", id, NoError, "main.ts:241")
         /\ UNCHANGED <<pairs, maxAttempts, cards, status, attemptsLeft, selected, timers>>
    ELSE Flip(id)

ClickAny == \E id \in Ids : Click(id)

\* the restart button: start() of the page, which calls game.start()
RestartClick == Start

\* the page: the game is driven by board clicks and the restart button only
NextUI ==
    \/ ClickAny
    \/ RestartClick
    \/ FlipBack

SpecUI == InitFresh /\ [][NextUI]_vars

(* ======================================================================= *)
(* Properties                                                              *)
(* ======================================================================= *)
TypeOK ==
    /\ status \in GameStatus
    /\ \A k \in 1..Len(cards) : cards[k].state \in CardState
    /\ Len(selected) <= 1

ValuesIn(cs) == {cs[k].value : k \in 1..Len(cs)}

Holders(cs, v) == {k \in 1..Len(cs) : cs[k].value = v}

\* every value present is held by exactly two cards
EachValueTwice(cs) == \A v \in ValuesIn(cs) : Cardinality(Holders(cs, v)) = 2

\* exactly p distinct values, each held by exactly two cards
PairedValues(cs, p) == Cardinality(ValuesIn(cs)) = p /\ EachValueTwice(cs)

StateOfId(cs, id) == cs[CHOOSE k \in 1..Len(cs) : cs[k].id = id].state

ValueOfId(cs, id) == cs[CHOOSE k \in 1..Len(cs) : cs[k].id = id].value

InDeck(cs, id) == \E k \in 1..Len(cs) : cs[k].id = id

\* the step is a call flip(id)
FlipCalled(id) == last'.op = "flip" /\ last'.arg = id

\* the step is a flip accepted for the second distinct card of a turn
SecondFlip(id) ==
    /\ FlipCalled(id)
    /\ last'.err = NoError
    /\ Len(selected) = 1
    /\ selected[1] # id

\* the deck is as a valid construction leaves it: 2 x pairs cards, pairs
\* distinct values, each held by exactly two cards
ProperDeck == Len(cards) = 2 * pairs /\ PairedValues(cards, pairs)

GameUnchanged == UNCHANGED <<cards, status, attemptsLeft, selected, timers>>

(* ---- C1 ---------------------------------------------------------------- *)
\* C1: in a game on a proper deck, a card that is Matched is still Matched
\* after every step other than a reset: no flip, start or flip-back callback
\* un-matches it.
C1_MatchedStaysMatched ==
    [][\A id \in Ids :
          (/\ ProperDeck
           /\ InDeck(cards, id)
           /\ StateOfId(cards, id) = Matched
           /\ last'.op # "reset")
              => (InDeck(cards', id) /\ StateOfId(cards', id) = Matched)]_vars

(* ---- C2 ---------------------------------------------------------------- *)
\* C2: the non-empty deck of a constructed Game (status still Idle: no start
\* or reset yet) has 2 x pairs cards and pairs distinct values, each held
\* twice.  (The empty value list is a case of its own.)
C2_ConstructedDeck ==
    (status = Idle /\ cards # <<>>)
        => (Len(cards) = 2 * pairs /\ PairedValues(cards, pairs))

(* ---- C3 ---------------------------------------------------------------- *)
\* C3: reset() with no list, or with a list shorter than pairs, on a deck of
\* pairs values each held twice yields again pairs values each held twice.
C3_ResetKeepsValueCount ==
    [][(last'.op = "reset" /\ last'.arg < pairs /\ PairedValues(cards, pairs))
          => PairedValues(cards', pairs)]_vars

(* ---- C4 ---------------------------------------------------------------- *)
\* C4: in a game on a proper deck, when the second distinct card of a turn
\* is accepted, equal values leave both cards Matched and attemptsLeft as it
\* was; different values leave attemptsLeft one less and both cards FaceUp;
\* and the turn's flip-back callback leaves its two cards FaceDown.
C4_TurnOutcome ==
    [][/\ \A id \in Ids : (ProperDeck /\ SecondFlip(id)) =>
            LET a == selected[1] IN
            IF ValueOfId(cards, a) = ValueOfId(cards, id)
            THEN /\ StateOfId(cards', a) = Matched
                 /\ StateOfId(cards', id) = Matched
                 /\ attemptsLeft' = attemptsLeft
            ELSE /\ attemptsLeft' = attemptsLeft - 1
                 /\ StateOfId(cards', a) = FaceUp
                 /\ StateOfId(cards', id) = FaceUp
       /\ (last'.op = "timeout" /\ timers # <<>> /\ Head(timers).live) =>
            /\ StateOfId(cards', Head(timers).first) = FaceDown
            /\ StateOfId(cards', Head(timers).second) = FaceDown]_vars

(* ---- C5 ---------------------------------------------------------------- *)
\* C5: status becomes Won in a step exactly when the step is a flip that
\* completes a turn and leaves every card of the deck Matched.
C5_WonIffAllMatched ==
    [][(status # Won /\ status' = Won)
          <=> /\ status = Playing
              /\ \E id \in Ids : SecondFlip(id)
              /\ \A k \in 1..Len(cards') : cards'[k].state = Matched]_vars

C5_Witness ==
    /\ status = Won
    /\ last.op = "flip"
    /\ Len(cards) = 4
    /\ \A k \in 1..Len(cards) : cards[k].state = Matched

(* ---- C6 ---------------------------------------------------------------- *)
\* the step is a flip that completes a turn of two cards of different values
MismatchedTurn ==
    \E id \in Ids : SecondFlip(id) /\ ValueOfId(cards, selected[1]) # ValueOfId(cards, id)

C7_FlipRejections ==
    [][\A id \in Ids : FlipCalled(id) =>
          /\ status # Playing
                => (last'.err = ErrNotPlaying /\ GameUnchanged)
          /\ (status = Playing /\ ~InDeck(cards, id))
                => (last'.err = ErrNotFound /\ GameUnchanged)
          /\ (status = Playing /\ InDeck(cards, id) /\ StateOfId(cards, id) = Matched)
                => (last'.err = ErrMatched /\ GameUnchanged)]_vars

C7_Witness ==
    /\ last.op = "flip"
    /\ last.err = ErrMatched
    /\ status = Playing
    /\ InDeck(cards, last.arg)
    /\ StateOfId(cards, last.arg) = Matched

(* ---- C8 ---------------------------------------------------------------- *)
\* C8: in a game on a proper deck, while a flip-back callback is pending,
\* neither of its two cards is in the selection or Matched.
C8_PendingCardsUntouched ==
    \A k \in 1..Len(timers) :
        (ProperDeck /\ timers[k].live) =>
            \A id \in {timers[k].first, timers[k].second} :
                /\ \A j \in 1..Len(selected) : selected[j] # id
                /\ StateOfId(cards, id) # Matched

(* ---- C9 ---------------------------------------------------------------- *)
\* C9: flip(id) on the card that is the current selection returns without
\* error and changes neither the cards, the selection, attemptsLeft nor
\* status; the selection is still that one card.
C9_DuplicateFlipNoOp ==
    [][\A id \in Ids : (FlipCalled(id) /\ selected = <<id>>) =>
          /\ last'.err = NoError
          /\ GameUnchanged
          /\ selected' = <<id>>]_vars

C9_Witness ==
    /\ last.op = "flip"
    /\ last.at = "main.ts:126"
    /\ selected = <<last.arg>>
    /\ status = Playing

(* ---- C10 --------------------------------------------------------------- *)
\* C10: after reset(values) with at least pairs entries the deck has
\* 2 x pairs cards and every value present is held by exactly two cards.
C10_ResetWithValues ==
    (last.op = "reset" /\ last.arg >= pairs)
        => (Len(cards) = 2 * pairs /\ EachValueTwice(cards))

(* ---- C11 --------------------------------------------------------------- *)
AllFaceDown(cs) == \A k \in 1..Len(cs) : cs[k].state = FaceDown

\* C11: a reset leaves status Playing, attemptsLeft at maxAttempts, the
\* selection empty and every card of the rebuilt deck FaceDown; the callbacks
\* still pending hold no card of the rebuilt deck, and such a callback, when
\* it fires, changes no card of the deck.
C11_ResetPostState ==
    [][/\ last'.op = "reset" =>
            /\ status' = Playing
            /\ attemptsLeft' = maxAttempts
            /\ selected' = <<>>
            /\ AllFaceDown(cards')
            /\ Len(timers') = Len(timers)
            /\ \A k \in 1..Len(timers') :
                  /\ ~timers'[k].live
                  /\ ~InDeck(cards', timers'[k].first)
                  /\ ~InDeck(cards', timers'[k].second)
       /\ (last'.op = "timeout" /\ ~InDeck(cards, Head(timers).first))
            => cards' = cards]_vars

\* reset() was called while a flip-back callback was pending
C11_Witness ==
    /\ last.op = "reset"
    /\ timers # <<>>
    /\ status = Playing
    /\ AllFaceDown(cards)
    /\ cards # <<>>

(* ---- C12 --------------------------------------------------------------- *)
\* C12: no Game holds an empty deck: building a deck from an empty value
\* list throws instead.
C12_NoEmptyDeck == cards # <<>>

(* ---- C13 --------------------------------------------------------------- *)
\* C13: start() sets status Playing, attemptsLeft to maxAttempts and the
\* selection empty, and leaves the deck (order, ids, values and every card's
\* state) and the pending callbacks as they were.
C13_StartFrame ==
    [][last'.op = "start" =>
          /\ status' = Playing
          /\ attemptsLeft' = maxAttempts
          /\ selected' = <<>>
          /\ UNCHANGED <<cards, timers, pairs, maxAttempts>>]_vars

\* start() was called on a board holding Matched and FaceUp cards
C13_Witness ==
    /\ last.op = "start"
    /\ \E k \in 1..Len(cards) : cards[k].state = Matched
    /\ \E k \in 1..Len(cards) : cards[k].state = FaceUp

(* ---- C14 --------------------------------------------------------------- *)
\* C14: a mismatched turn that leaves no attempt sets status Lost in the
\* flip itself, with the turn's callback still pending; the callback, when
\* it fires, turns its two cards FaceDown and changes neither status nor
\* attemptsLeft.
C14_LostBeforeFlipBack ==
    [][/\ (MismatchedTurn /\ attemptsLeft' <= 0) =>
            /\ status' = Lost
            /\ timers' # <<>>
            /\ timers'[Len(timers')] =
                  [first |-> selected[1], second |-> last'.arg, live |-> TRUE]
       /\ last'.op = "timeout" =>
            /\ status' = status
            /\ attemptsLeft' = attemptsLeft
            /\ Head(timers).live =>
                  /\ StateOfId(cards', Head(timers).first) = FaceDown
                  /\ StateOfId(cards', Head(timers).second) = FaceDown]_vars

\* Lost, and the two mismatched cards are still FaceUp
C14_Witness ==
    /\ status = Lost
    /\ attemptsLeft = 0
    /\ last.op = "flip"
    /\ Len(timers) = 1
    /\ timers[1].live
    /\ StateOfId(cards, timers[1].first) = FaceUp
    /\ StateOfId(cards, timers[1].second) = FaceUp

(* ---- C15 --------------------------------------------------------------- *)
\* the cards flip still accepts
Flippable == {k \in 1..Len(cards) : cards[k].state # Matched}

\* C15: in a game in play (no start or reset after the fresh start), while
\* status is Playing and no callback is pending, flips can still complete a
\* turn: at least two cards are not Matched.
C15_TurnAlwaysPossible ==
    (status = Playing /\ timers = <<>>) => Cardinality(Flippable) >= 2

(* ---- C16 --------------------------------------------------------------- *)
\* C16: status is Idle until the first start or reset and never again; Won
\* and Lost are entered only from Playing and only by a flip; Won and Lost
\* are left only by start or reset, to Playing.
C16_StatusMachine ==
    [][/\ status' = Idle => (status = Idle /\ last'.op \notin {"start", "reset"})
       /\ (status = Idle /\ status' # Idle)
            => (last'.op \in {"start", "reset"} /\ status' = Playing)
       /\ (status' \in {Won, Lost} /\ status' # status)
            => (status = Playing /\ last'.op = "flip")
       /\ (status \in {Won, Lost} /\ status' # status)
            => (last'.op \in {"start", "reset"} /\ status' = Playing)
       /\ (status \in {Won, Lost} /\ last'.op \in {"flip", "timeout"})
            => status' = status]_vars

\* a callback fired while the game was Lost, and it is still Lost
C16_Witness ==
    /\ status = Lost
    /\ last.op = "timeout"
    /\ timers = <<>>

(* ---- C17 --------------------------------------------------------------- *)
\* C17: between operations the selection holds at most one card, and it is
\* empty right after a flip that evaluated a turn, also while that turn's
\* callback is pending.
C17_SelectionBound ==
    [][/\ Len(selected) <= 1
       /\ Len(selected') <= 1
       /\ (\E id \in Ids : SecondFlip(id)) => selected' = <<>>]_vars

\* a mismatched turn was evaluated, its callback has not fired
C17_Witness ==
    /\ selected = <<>>
    /\ last.op = "flip"
    /\ last.at = "main.ts:135"
    /\ status = Playing
    /\ Len(timers) = 1
    /\ timers[1].live
    /\ timers[1].second = last.arg

(* ---- C18 --------------------------------------------------------------- *)
\* C18: with maxAttempts >= 1, attemptsLeft stays within 0..maxAttempts, is
\* maxAttempts after construction, start and reset, one less after each
\* mismatched turn and unchanged by every other step; it is at least 1 while
\* status is Playing and 0 while status is Lost.
C18_AttemptsAccount ==
    [][maxAttempts >= 1 =>
          /\ attemptsLeft' \in 0..maxAttempts
          /\ status' = Playing => attemptsLeft' >= 1
          /\ status' = Lost => attemptsLeft' = 0
          /\ status = Idle => attemptsLeft = maxAttempts
          /\ attemptsLeft' =
                IF last'.op \in {"start", "reset"} THEN maxAttempts
                ELSE IF MismatchedTurn THEN attemptsLeft - 1
                ELSE attemptsLeft]_vars

\* a game won after one mismatch: the matched turns left the budget alone
C18_Witness ==
    /\ status = Won
    /\ maxAttempts = 2
    /\ attemptsLeft = 1
    /\ Len(cards) = 4

(* ---- C19 --------------------------------------------------------------- *)
\* the card is one of the two a pending callback will turn face down
InPendingTimer(id) ==
    \E k \in 1..Len(timers) :
        timers[k].live /\ id \in {timers[k].first, timers[k].second}

\* C19: in a game on a proper deck every FaceUp card is in the selection or
\* is one of the two cards of a pending flip-back callback.
C19_FaceUpAccounted ==
    ProperDeck =>
        \A k \in 1..Len(cards) :
            cards[k].state = FaceUp =>
                \/ \E j \in 1..Len(selected) : selected[j] = cards[k].id
                \/ InPendingTimer(cards[k].id)

(* ---- C20 --------------------------------------------------------------- *)
\* C20: driven by board clicks and the restart button, flip is called on
\* FaceDown cards only and never throws "Card already matched"; the cards of
\* a pending callback are neither selected nor Matched, and the callback
\* turns no selected or Matched card face down.
C20_ClicksFlipFaceDownOnly ==
    [][/\ \A id \in Ids : FlipCalled(id) =>
            /\ InDeck(cards, id)
            /\ StateOfId(cards, id) = FaceDown
            /\ last'.err # ErrMatched
       /\ \A k \in 1..Len(timers') :
            \A id \in {timers'[k].first, timers'[k].second} :
                /\ \A j \in 1..Len(selected') : selected'[j] # id
                /\ StateOfId(cards', id) = FaceUp
       /\ last'.op = "timeout" =>
            \A k \in 1..Len(cards) :
                (cards'[k].state # cards[k].state) =>
                    /\ cards[k].state = FaceUp
                    /\ \A j \in 1..Len(selected) : selected[j] # cards[k].id]_vars

\* a click on a card of a mismatched pair was dropped while its callback
\* was pending
C20_Witness ==
    /\ last.op = "click"
    /\ status = Playing
    /\ Len(timers) = 1
    /\ last.arg \in {timers[1].first, timers[1].second}
====
